---- MODULE Spec2Model ----
(***************************************************************************)
(* The document store of the YouTube study app, in its two variants:       *)
(*   "app"     src/src/App.jsx      (playlist aware, duplicate-id effect)  *)
(*   "part000" src/unnamed/part_000 (single videos only)                   *)
(* The store is the React state {projects, currentProjectId}.  An action   *)
(* is one event: the handler, the renders its setState calls cause and the *)
(* effects React runs after them, which all end before the next event.     *)
(*                                                                         *)
(* Ids are integers: generateId hands out 1, 2, 3, ... (never an id in     *)
(* use), ids of records found in storage at startup are above 100, and     *)
(* HardcodedId stands for the one id the duplicate-id effect knows.        *)
(* An id that is generated and then dropped (the note id of a rejected     *)
(* note, the ids of playlist videos that are filtered out) is never seen   *)
(* again; nextId counts the ids that reached the store.                    *)
(* The timestamps createdAt/updatedAt and the field source are written     *)
(* once and read by no handler; they are left out of the records.          *)
(* localStorage.setItem is taken to succeed.                               *)
(*                                                                         *)
(* The player widget is what playerRef.current holds: nothing, a player    *)
(* that was constructed and has no methods yet ("created"), a constructed  *)
(* player that has its methods and has not fired onReady yet ("fresh"), a  *)
(* player that has fired onReady ("ready"), or nothing again after         *)
(* destroy().  The IFrame API is not part of the sources: whether the      *)
(* object new YT.Player returns carries its methods at once or only from   *)
(* its onReady event on is a property of the library build, methodsAtOnce. *)
(* What the player reports as its current time and its state are inputs    *)
(* of the steps that ask for them.                                         *)
(*                                                                         *)
(* formatTime reads nothing of the store.  It is checked by itself, under  *)
(* FormatSpec, on arguments drawn from TimeArgs; texts are sequences of    *)
(* characters there.  Under Spec no call of it is modelled.                *)
(*                                                                         *)
(* Reminders (the permission request, the timers, the notifications) read  *)
(* nothing of the store either; they are followed under ReminderSpec.      *)
(***************************************************************************)
EXTENDS Integers, Sequences, FiniteSets, TLC

VARIABLES
    variant,            \* which source file runs
    phase,              \* "start" | "running" | "crashed"
    storage,            \* localStorage[LS_KEY]: a JSON document, absent or corrupt
    projects,           \* state.projects
    currentProjectId,   \* state.currentProjectId
    currentVideoId,     \* useState(null)
    curVideo,           \* part000 only: useState(null) currentVideo, <<>> or <<video>>
    selCurrent,         \* part000 only: setCurrentVideoId.__current
    isLoading,          \* app only
    pending,            \* app only: the playlist fetch in flight, <<>> or <<closure>>
    file,               \* the last downloaded export, a JSON document
    nextId,             \* the next id generateId returns
    lastAlert,          \* what the last handler told the user ("" for nothing)
    events,             \* how many events have been handled
    ytLoaded,           \* window.YT.Player exists
    methodsAtOnce,      \* the library build gives a constructed player its methods
    widget,             \* playerRef.current: "none" | "created" | "fresh" | "ready" |
                        \* "destroyed"
    resumeTime,         \* currentVideo?.lastTime || 0 as the onReady callback sees it
    isVideoPlaying,     \* useState(false)
    watching,           \* the lastTime watcher has an interval running
    lastSavedTime,      \* app only: let lastSavedTime of the watcher effect
    timeArg,            \* the argument of the formatTime call of FormatSpec
    timeText,           \* what the call returned, a sequence of characters
    permissionRequests, \* the Notification.requestPermission() promises not yet settled
    timers,             \* the setTimeout calls of the reminders that are not yet due
    shown               \* the titles of the notifications that were shown

vars == <<variant, phase, storage, projects, currentProjectId, currentVideoId,
          curVideo, selCurrent, isLoading, pending, file, nextId, lastAlert,
          events, ytLoaded, methodsAtOnce, widget, resumeTime, isVideoPlaying,
          watching, lastSavedTime, timeArg, timeText, permissionRequests, timers,
          shown>>

----------------------------------------------------------------------------
(* Bounds *)

\* generateId is called at most MaxIds times in a behaviour
MaxIds == 5
\* import is offered while the store holds fewer than MaxProjects projects
MaxProjects == 3
\* a behaviour is a session of at most MaxEvents events
MaxEvents == 3
\* formatTime is applied to the seconds 0..MaxSeconds (and to a few longer times)
MaxSeconds == 7300

----------------------------------------------------------------------------
(* Values *)

\* JS null as a project id
Null == -1
\* JS null as currentVideoId / __current
NullVideoId == "null"
\* JS null returned by prompt() when the user cancels
PromptCancel == "<cancel>"
\* the id the duplicate-id effect compares with
HardcodedId == 0
\* ids that no project, note or bookmark carries: what a handler is handed when
\* its target is gone (or, for the project selector, when the option's string
\* value is not the id of a project)
UnknownIds == {99}
Variants == {"app", "part000"}
VideoIds == {"a", "b"}
PlayerTimes == {0, 7}
NoteTexts == {"", "  ", "note"}
PromptAnswers == {PromptCancel, "", "  ", "note"}

\* String.prototype.trim on the texts of the model
Trim(s) == IF s = "  " THEN "" ELSE s

\* playlistIndex of a video that was not added from a playlist (the key is absent)
Undefined == 0

----------------------------------------------------------------------------
(* Sequence helpers: Array.prototype.map / filter / some / find *)

Map(s, F(_)) == [i \in 1..Len(s) |-> F(s[i])]

Filter(s, T(_)) == SelectSeq(s, T)

Some(s, T(_)) == \E i \in 1..Len(s) : T(s[i])

\* index of the first element satisfying T, 0 when there is none
FindIndex(s, T(_)) ==
    IF Some(s, T) THEN CHOOSE i \in 1..Len(s) : T(s[i]) /\ \A j \in 1..(i-1) : ~T(s[j])
    ELSE 0

Range(s) == {s[i] : i \in 1..Len(s)}

----------------------------------------------------------------------------
(* JSON documents: what JSON.stringify writes and JSON.parse reads *)

JNull == [t |-> "null", n |-> 0, s |-> "", keys |-> <<>>, kids |-> <<>>]
JNum(x) == [t |-> "num", n |-> x, s |-> "", keys |-> <<>>, kids |-> <<>>]
JStr(x) == [t |-> "str", n |-> 0, s |-> x, keys |-> <<>>, kids |-> <<>>]
JArr(xs) == [t |-> "arr", n |-> 0, s |-> "", keys |-> <<>>, kids |-> xs]
JObj(ks, xs) == [t |-> "obj", n |-> 0, s |-> "", keys |-> ks, kids |-> xs]
\* localStorage.getItem returns null
Absent == [t |-> "absent", n |-> 0, s |-> "", keys |-> <<>>, kids |-> <<>>]
\* a text JSON.parse throws on
Corrupt == [t |-> "corrupt", n |-> 0, s |-> "", keys |-> <<>>, kids |-> <<>>]

Has(doc, k) == doc.t = "obj" /\ \E i \in 1..Len(doc.keys) : doc.keys[i] = k
Get(doc, k) == doc.kids[CHOOSE i \in 1..Len(doc.keys) : doc.keys[i] = k]

\* an id is a JS string or null
IdToJSON(id) == IF id = Null THEN JNull ELSE JNum(id)
IdFromJSON(doc) == IF doc.t = "num" THEN doc.n ELSE Null

NoteToJSON(n) ==
    JObj(<<"id", "t", "text">>, <<JNum(n.id), JNum(n.t), JStr(n.text)>>)

NoteFromJSON(doc) ==
    [id |-> Get(doc, "id").n, t |-> Get(doc, "t").n, text |-> Get(doc, "text").s]

BookmarkToJSON(b) ==
    JObj(<<"id", "t", "title", "tag", "color">>,
         <<JNum(b.id), JNum(b.t), JStr(b.title), JStr(b.tag), JStr(b.color)>>)

BookmarkFromJSON(doc) ==
    [id |-> Get(doc, "id").n, t |-> Get(doc, "t").n, title |-> Get(doc, "title").s,
     tag |-> Get(doc, "tag").s, color |-> Get(doc, "color").s]

\* JSON.stringify leaves out a key whose value is undefined
VideoToJSON(v) ==
    LET ks == <<"id", "title", "videoId", "notes", "bookmarks", "lastTime">>
        xs == <<JNum(v.id), JStr(v.title), JStr(v.videoId),
                JArr(Map(v.notes, NoteToJSON)), JArr(Map(v.bookmarks, BookmarkToJSON)),
                JNum(v.lastTime)>>
    IN  IF v.playlistIndex = Undefined THEN JObj(ks, xs)
        ELSE JObj(Append(ks, "playlistIndex"), Append(xs, JNum(v.playlistIndex)))

VideoFromJSON(doc) ==
    [id |-> Get(doc, "id").n, title |-> Get(doc, "title").s,
     videoId |-> Get(doc, "videoId").s,
     notes |-> Map(Get(doc, "notes").kids, NoteFromJSON),
     bookmarks |-> Map(Get(doc, "bookmarks").kids, BookmarkFromJSON),
     lastTime |-> Get(doc, "lastTime").n,
     playlistIndex |-> IF Has(doc, "playlistIndex") THEN Get(doc, "playlistIndex").n
                       ELSE Undefined]

ProjectToJSON(p) ==
    JObj(<<"id", "name", "videos">>,
         <<JNum(p.id), JStr(p.name), JArr(Map(p.videos, VideoToJSON))>>)

ProjectFromJSON(doc) ==
    [id |-> Get(doc, "id").n, name |-> Get(doc, "name").s,
     videos |-> Map(Get(doc, "videos").kids, VideoFromJSON)]

\* JSON.stringify(state)
StateToJSON(ps, cur) ==
    JObj(<<"projects", "currentProjectId">>,
         <<JArr(Map(ps, ProjectToJSON)), IdToJSON(cur)>>)

----------------------------------------------------------------------------
(* Records *)

NewProject(id, name) == [id |-> id, name |-> name, videos |-> <<>>]

NewVideo(id, videoId, title, playlistIndex) ==
    [id |-> id, title |-> title, videoId |-> videoId, notes |-> <<>>,
     bookmarks |-> <<>>, lastTime |-> 0, playlistIndex |-> playlistIndex]

\* the record a previous session of the program left in storage: one project
\* holding video "a" with a resume position, one note and one bookmark
SavedRecord ==
    StateToJSON(
        << [id |-> 101, name |-> "My First Study Set",
            videos |-> << [id |-> 102, title |-> "Untitled Video", videoId |-> "a",
                           notes |-> << [id |-> 103, t |-> 7, text |-> "note"] >>,
                           bookmarks |-> << [id |-> 104, t |-> 0, title |-> "Bookmark",
                                             tag |-> "", color |-> "emerald"] >>,
                           lastTime |-> 7, playlistIndex |-> Undefined] >>] >>,
        101)

\* a project file that did not come from this store: it carries HardcodedId
ForeignFile == ProjectToJSON(NewProject(HardcodedId, "Shared"))

\* const defaultState, with the id generateId returned at module load
defaultState(id) ==
    [projects |-> << NewProject(id, "My First Study Set") >>, currentProjectId |-> Null]

----------------------------------------------------------------------------
(* Values derived during a render *)

ProjectIds(ps) == {ps[i].id : i \in 1..Len(ps)}

\* state.projects.find((p) => p.id === state.currentProjectId) || state.projects[0]
CurrentProject(ps, cur) ==
    IF Some(ps, LAMBDA p : p.id = cur) THEN ps[FindIndex(ps, LAMBDA p : p.id = cur)]
    ELSE ps[1]

currentProject == CurrentProject(projects, currentProjectId)

HasVideo(p, vid) == Some(p.videos, LAMBDA v : v.videoId = vid)

FindVideo(p, vid) == p.videos[FindIndex(p.videos, LAMBDA v : v.videoId = vid)]

\* currentProject.videos.find((v) => v.videoId === currentVideoId) || null,
\* as <<>> (null) or <<video>>
FoundVideo(ps, cur, vid) ==
    IF HasVideo(CurrentProject(ps, cur), vid)
    THEN << FindVideo(CurrentProject(ps, cur), vid) >> ELSE <<>>

\* currentVideo: app computes it in the render (useMemo); part000 keeps it in
\* state and refreshes it in an effect
currentVideo ==
    IF variant = "part000" THEN curVideo
    ELSE FoundVideo(projects, currentProjectId, currentVideoId)

\* projects.map(p => p.id !== pid ? p : {...p, videos: p.videos.map(v =>
\*     v.videoId === vid ? F(v) : v)})
UpdateVideo(ps, pid, vid, F(_)) ==
    Map(ps, LAMBDA p :
        IF p.id # pid THEN p
        ELSE [p EXCEPT !.videos =
                 Map(p.videos, LAMBDA v : IF v.videoId = vid THEN F(v) ELSE v)])

\* the setState updater of handleSetTitle
SetVideoTitle(ps, pid, vid, title) ==
    UpdateVideo(ps, pid, vid, LAMBDA v : [v EXCEPT !.title = title])

\* SetVideoLastTime adding the seconds to what is stored (fault injection
\* for C15)
SetVideoLastTimeAdds(ps, pid, vid, seconds) ==
    UpdateVideo(ps, pid, vid, LAMBDA v : [v EXCEPT !.lastTime = v.lastTime + seconds])

\* the setState updater of the lastTime watcher
SetVideoLastTime(ps, pid, vid, seconds) ==
    UpdateVideo(ps, pid, vid, LAMBDA v : [v EXCEPT !.lastTime = seconds])

\* how many more ids the bound lets generateId return
IdsLeft == MaxIds - nextId + 1

----------------------------------------------------------------------------
(* The effects that run after a render.  Each takes and returns the record   *)
(* [projects, currentProjectId, currentVideoId, selCurrent, curVideo, nextId,*)
(* storage, widget, resumeTime, watching, lastSavedTime] of what the         *)
(* components hold, and renderedVideo, part_000's currentVideo state in the  *)
(* render in which currentVideoId got its value; the unprimed variables are  *)
(* what the components held at the event's beginning.                        *)

HasDuplicateIds(ps) == Cardinality(ProjectIds(ps)) # Len(ps)

\* how many projects the duplicate-id fix gives a new id
Regenerated(ps) == Cardinality({i \in 2..Len(ps) : ps[i].id = HardcodedId})

\* prevState.projects.map((project, index) => ({...project,
\*     id: project.id === '2e1d...' && index > 0 ? generateId() : project.id}))
FixDuplicateIds(ps, first) ==
    [i \in 1..Len(ps) |->
        IF ps[i].id = HardcodedId /\ i > 1
        THEN [ps[i] EXCEPT !.id =
                 first + Cardinality({j \in 2..(i-1) : ps[j].id = HardcodedId})]
        ELSE ps[i]]

\* app: the duplicate-id effect.  When the fix changes no id, its setState stores
\* an equal state and the effect runs again after every following render; those
\* runs change nothing.
DuplicateIdEffect(s) ==
    IF variant = "app" /\ HasDuplicateIds(s.projects)
    THEN [s EXCEPT !.projects = FixDuplicateIds(s.projects, s.nextId),
                   !.nextId = s.nextId + Regenerated(s.projects)]
    ELSE s

\* auto-select the first video when the one last seen is not in the current
\* project: App.jsx compares with currentVideoId, part_000's
\* EffectSelectFirstVideo with setCurrentVideoId.__current.  In part_000 the
\* effects of the same commit have set currentVideo for the id that was current
\* before, and that is the currentVideo of the render that shows the new id.
AutoSelectEffect(s) ==
    LET p == CurrentProject(s.projects, s.currentProjectId)
        seen == IF variant = "app" THEN s.currentVideoId ELSE s.selCurrent
    IN  IF Len(p.videos) > 0 /\ ~HasVideo(p, seen)
        THEN [s EXCEPT !.currentVideoId = p.videos[1].videoId,
                       !.selCurrent = IF variant = "app" THEN s.selCurrent
                                      ELSE p.videos[1].videoId,
                       !.renderedVideo = FoundVideo(s.projects, s.currentProjectId,
                                                    s.currentVideoId)]
        ELSE s

\* part000: setCurrentVideo(currentProject.videos.find(...) || null)
CurrentVideoEffect(s) ==
    IF variant = "part000"
    THEN [s EXCEPT !.curVideo = FoundVideo(s.projects, s.currentProjectId,
                                           s.currentVideoId)]
    ELSE s

\* PersistEffect with an empty dependency list: nothing is written after the
\* first render, whose write is the state as loaded (fault injection for C8)
PersistEffectOnMount(s) ==
    IF phase = "start"
    THEN [s EXCEPT !.storage = StateToJSON(s.projects, s.currentProjectId)]
    ELSE s

\* useEffect(() => localStorage.setItem(LS_KEY, JSON.stringify(state)), [state])
PersistEffect(s) ==
    [s EXCEPT !.storage = StateToJSON(s.projects, s.currentProjectId)]

\* new window.YT.Player(...): the object playerRef.current is given
NewPlayer == IF methodsAtOnce THEN "fresh" ELSE "created"

\* createPlayer / create: nothing without a videoId, else a new player (the one
\* before was destroyed if it had the method destroy)
createPlayer(w, videoId) == IF videoId = NullVideoId THEN w ELSE NewPlayer

\* the cleanup of the player effect: destroy() and playerRef.current = null for a
\* player that has the method destroy
DestroyPlayer(w) == IF w \in {"fresh", "ready"} THEN "destroyed" ELSE w

\* currentVideo?.lastTime || 0
LastTimeOf(video) == IF video = <<>> THEN 0 ELSE video[1].lastTime

\* the resume time of the onReady callback the hook is handed by the render
\* whose player effect runs: App.jsx computes currentVideo in that render,
\* part_000 reads the state an effect of an earlier render has set
OnReadyResumeTime(s) ==
    LastTimeOf(IF variant = "app"
               THEN FoundVideo(s.projects, s.currentProjectId, s.currentVideoId)
               ELSE s.renderedVideo)

\* the player effect of useYouTubePlayer / useYouTube: cleanup, then createPlayer
\* if the API is loaded.  App.jsx lists onReady among its dependencies, a function
\* made anew by every render, so the effect runs after every render; part_000
\* lists [playerId, videoId].
PlayerEffect(s) ==
    IF variant = "app" \/ phase = "start" \/ s.currentVideoId # currentVideoId
    THEN [s EXCEPT !.widget = IF ytLoaded
                              THEN createPlayer(DestroyPlayer(s.widget), s.currentVideoId)
                              ELSE DestroyPlayer(s.widget),
                   !.resumeTime = OnReadyResumeTime(s)]
    ELSE s

\* hasMethod answering yes whatever playerRef.current holds (fault injection
\* for C17)
hasMethodAlways(w) == TRUE

\* playerRef.current && typeof playerRef.current[method] === "function"
hasMethod(w) == w \in {"fresh", "ready"}

isReady(w) == hasMethod(w)

\* the lastTime watcher effect.  App.jsx: when currentVideoId or currentProject?.id
\* changed, lastSavedTime starts at 0 again and the interval is set up if a video
\* is open and the player answers isReady() now.  part_000 sets its interval up
\* whatever the player says.
WatcherEffect(s) ==
    IF variant = "part000"
    THEN [s EXCEPT !.watching = TRUE]
    ELSE IF \/ phase = "start"
            \/ s.currentVideoId # currentVideoId
            \/ CurrentProject(s.projects, s.currentProjectId).id # currentProject.id
         THEN [s EXCEPT !.watching = s.currentVideoId # NullVideoId /\ isReady(s.widget),
                        !.lastSavedTime = 0]
         ELSE s

\* The renders and effects that follow a handler's setState calls, until no
\* effect changes anything any more.  The duplicate-id fix can change which
\* project is current, the current project decides the auto-selection, and the
\* selection decides currentVideo and the player; the last render's state is the
\* one persisted.  (Each effect is applied to the value the one before returned.)
Render(s) ==
    LET s1 == {DuplicateIdEffect(s)}
        s2 == {AutoSelectEffect(x) : x \in s1}
        s3 == {CurrentVideoEffect(x) : x \in s2}
        s4 == {PlayerEffect(x) : x \in s3}
        s5 == {WatcherEffect(x) : x \in s4}
    IN  CHOOSE r \in {PersistEffect(x) : x \in s5} : TRUE

\* what the components hold now
Held ==
    [projects |-> projects, currentProjectId |-> currentProjectId,
     currentVideoId |-> currentVideoId, selCurrent |-> selCurrent,
     curVideo |-> curVideo, nextId |-> nextId, storage |-> storage,
     widget |-> widget, resumeTime |-> resumeTime, watching |-> watching,
     lastSavedTime |-> lastSavedTime, renderedVideo |-> curVideo]

\* a handler has set s: React renders and runs the effects before the next event
Commit(s) ==
    \E r \in {Render(s)} :
        /\ projects' = r.projects
        /\ currentProjectId' = r.currentProjectId
        /\ currentVideoId' = r.currentVideoId
        /\ selCurrent' = r.selCurrent
        /\ curVideo' = r.curVideo
        /\ nextId' = r.nextId
        /\ storage' = r.storage
        /\ widget' = r.widget
        /\ resumeTime' = r.resumeTime
        /\ watching' = r.watching
        /\ lastSavedTime' = r.lastSavedTime
        /\ UNCHANGED <<ytLoaded, methodsAtOnce, isVideoPlaying, timeArg, timeText,
                       permissionRequests, timers, shown>>

\* a handler returned without setting anything
NoCommit ==
    UNCHANGED <<projects, currentProjectId, currentVideoId, selCurrent, curVideo,
                nextId, storage, widget, resumeTime, watching, lastSavedTime,
                ytLoaded, methodsAtOnce, isVideoPlaying, timeArg, timeText,
                permissionRequests, timers, shown>>

\* an event (a click, a key, a resolved promise) is handled while the program
\* runs; a session has at most MaxEvents of them
Event == phase = "running" /\ events < MaxEvents /\ events' = events + 1

----------------------------------------------------------------------------
(* Startup *)

Init ==
    /\ variant \in Variants
    /\ phase = "start"
    /\ storage \in {Absent, Corrupt, SavedRecord}
    /\ projects = <<>>
    /\ currentProjectId = Null
    /\ currentVideoId = NullVideoId
    /\ curVideo = <<>>
    /\ selCurrent = NullVideoId
    /\ isLoading = FALSE
    /\ pending = <<>>
    /\ file = Absent
    /\ nextId = 1
    /\ lastAlert = ""
    /\ events = 0
    /\ ytLoaded = FALSE
    /\ methodsAtOnce \in BOOLEAN
    /\ widget = "none"
    /\ resumeTime = 0
    /\ isVideoPlaying = FALSE
    /\ watching = FALSE
    /\ lastSavedTime = 0
    /\ timeArg = 0
    /\ timeText = <<>>
    /\ permissionRequests = <<>>
    /\ timers = <<>>
    /\ shown = <<>>

\* JSON.parse(saved) succeeds
Parses(doc) == doc.t \notin {"absent", "corrupt"}

ParsedProjects(doc) == Map(Get(doc, "projects").kids, ProjectFromJSON)

\* useLocalStorage's initial state (app): the parsed record with currentProjectId
\* defaulted to the first project, or defaultState
useLocalStorage(saved, id) ==
    IF Parses(saved)
    THEN LET ps == ParsedProjects(saved)
             cur == IdFromJSON(Get(saved, "currentProjectId"))
         IN  [threw |-> FALSE, projects |-> ps,
              currentProjectId |-> IF cur # Null THEN cur ELSE ps[1].id]
    ELSE [threw |-> FALSE, projects |-> defaultState(id).projects,
          currentProjectId |-> defaultState(id).projects[1].id]

\* useLocalState's initial state (part000): the parsed record as it is; without a
\* record the initializer reads defaultState, which this file does not declare
\* (its declaration is commented out): a ReferenceError
useLocalState(saved) ==
    IF Parses(saved)
    THEN [threw |-> FALSE, projects |-> ParsedProjects(saved),
          currentProjectId |-> IdFromJSON(Get(saved, "currentProjectId"))]
    ELSE [threw |-> TRUE, projects |-> <<>>, currentProjectId |-> Null]

\* module load, the first render and its effects
LoadState ==
    /\ phase = "start"
    /\ LET s == IF variant = "app" THEN useLocalStorage(storage, nextId)
                ELSE useLocalState(storage)
       IN  IF s.threw
           THEN /\ phase' = "crashed"
                /\ NoCommit
           ELSE /\ phase' = "running"
                /\ Commit([Held EXCEPT
                      !.projects = s.projects,
                      !.currentProjectId = s.currentProjectId,
                      !.nextId = IF variant = "app" /\ ~Parses(storage) THEN nextId + 1
                                 ELSE nextId])
    /\ UNCHANGED <<variant, isLoading, pending, file, lastAlert, events>>

----------------------------------------------------------------------------
(* Project handlers *)

\* app: handleProjectChange; part000: the select's onChange
handleProjectChange(projectId) ==
    /\ Event
    /\ Commit([Held EXCEPT !.currentProjectId = projectId])
    /\ lastAlert' = ""
    /\ UNCHANGED <<variant, phase, isLoading, pending, file>>

\* name is what prompt("Project name?") returned
handleAddProject(name) ==
    /\ Event
    /\ lastAlert' = ""
    /\ IF name \in {PromptCancel, ""}
       THEN NoCommit
       ELSE /\ IdsLeft >= 1
            /\ Commit([Held EXCEPT !.projects = Append(projects, NewProject(nextId, name)),
                                   !.currentProjectId = nextId,
                                   !.nextId = nextId + 1])
    /\ UNCHANGED <<variant, phase, isLoading, pending, file>>

handleRenameProject(name) ==
    /\ Event
    /\ lastAlert' = ""
    /\ IF name \in {PromptCancel, ""}
       THEN NoCommit
       ELSE Commit([Held EXCEPT !.projects = Map(projects, LAMBDA p :
                       IF p.id = currentProject.id THEN [p EXCEPT !.name = name] ELSE p)])
    /\ UNCHANGED <<variant, phase, isLoading, pending, file>>

\* DeleteProjectApp with the deletion of the only project refused (fault
\* injection for C1)
DeleteProjectAppKeepsLast(ps, cp, id) ==
    LET remainingProjects == Filter(ps, LAMBDA p : p.id # cp.id)
        result == IF Len(remainingProjects) > 0 THEN remainingProjects ELSE ps
    IN  [projects |-> result, currentProjectId |-> result[1].id]

\* the setState updater of handleDeleteProject in App.jsx; id is what generateId
\* returns if it is called
DeleteProjectApp(ps, cp, id) ==
    LET remainingProjects == Filter(ps, LAMBDA p : p.id # cp.id)
        result == IF Len(remainingProjects) > 0 THEN remainingProjects
                  ELSE << NewProject(id, "New Project") >>
    IN  [projects |-> result, currentProjectId |-> result[1].id]

\* the setState updater of handleDeleteProject in part_000
DeleteProjectPart(ps, cp, id) ==
    LET others == Filter(ps, LAMBDA p : p.id # cp.id)
    IN  [projects |-> IF Len(others) > 0 THEN others
                      ELSE << NewProject(id, "New Project") >>,
         currentProjectId |-> IF Len(others) > 0 THEN others[1].id ELSE Null]

\* does deleting cp leave no project (so that generateId is called)
DeletesLast(ps, cp) == \A i \in 1..Len(ps) : ps[i].id = cp.id

\* confirmed is what confirm(`Delete project ...?`) returned
handleDeleteProject(confirmed) ==
    /\ Event
    /\ lastAlert' = ""
    /\ IF ~confirmed
       THEN NoCommit
       ELSE /\ DeletesLast(projects, currentProject) => IdsLeft >= 1
            /\ LET s == IF variant = "app"
                        THEN DeleteProjectApp(projects, currentProject, nextId)
                        ELSE DeleteProjectPart(projects, currentProject, nextId)
               IN  Commit([Held EXCEPT
                      !.projects = s.projects,
                      !.currentProjectId = s.currentProjectId,
                      !.nextId = IF DeletesLast(projects, currentProject) THEN nextId + 1
                                 ELSE nextId])
    /\ UNCHANGED <<variant, phase, isLoading, pending, file>>

----------------------------------------------------------------------------
(* Import / export *)

\* handleExportJSON / exportProjectJSON: the download is the file.  The model
\* follows one exported file: the user exports once.
handleExportJSON ==
    /\ Event
    /\ file = Absent
    /\ file' = ProjectToJSON(currentProject)
    /\ lastAlert' = ""
    /\ NoCommit
    /\ UNCHANGED <<variant, phase, isLoading, pending>>

\* a project file without its videos
NoVideosFile == JObj(<<"id", "name">>, <<JNum(HardcodedId), JStr("Shared")>>)

\* !project || !project.id || !project.videos, after JSON.parse
ValidProjectFile(doc) == Parses(doc) /\ Has(doc, "id") /\ Has(doc, "videos")

\* reader.onload of handleImportJSON / importProjectJSON
handleImportJSON(doc) ==
    /\ Event
    /\ doc.t # "absent"
    /\ IF ~ValidProjectFile(doc)
       THEN /\ lastAlert' = "Invalid JSON file"
            /\ NoCommit
       ELSE /\ Len(projects) < MaxProjects
            /\ variant = "app" =>
                  Regenerated(Append(projects, ProjectFromJSON(doc))) <= IdsLeft
            /\ Commit([Held EXCEPT !.projects = Append(projects, ProjectFromJSON(doc)),
                                   !.currentProjectId = ProjectFromJSON(doc).id])
            /\ lastAlert' = ""
    /\ UNCHANGED <<variant, phase, isLoading, pending, file>>

----------------------------------------------------------------------------
(* Reference resolution *)

\* A pasted reference: token is the text when it is an 11-character id (else "");
\* url says whether new URL(text) succeeds, and host, path (the segments of
\* pathname), v and list ("" when the parameter is missing) are its parts.
Ref(token, url, host, path, v, list) ==
    [token |-> token, url |-> url, host |-> host, path |-> path, v |-> v, list |-> list]

Refs ==
    { Ref("a", FALSE, "", <<>>, "", ""),
      Ref("b", FALSE, "", <<>>, "", ""),
      Ref("", TRUE, "youtu.be", <<"b">>, "", ""),
      Ref("", TRUE, "www.youtube.com", <<"watch">>, "a", ""),
      Ref("", TRUE, "www.youtube.com", <<"embed", "b">>, "", ""),
      Ref("", TRUE, "www.youtube.com", <<"playlist">>, "", "PL"),
      Ref("", TRUE, "www.youtube.com", <<"watch">>, "a", "PL"),
      Ref("", TRUE, "example.com", <<"watch">>, "a", ""),
      Ref("", FALSE, "", <<>>, "", "") }

\* hostname.includes("youtube.com")
IncludesYoutube(host) == host \in {"youtube.com", "www.youtube.com", "m.youtube.com"}

\* pathname.slice(1) of a youtu.be link
PathSlice1(path) == IF Len(path) = 1 THEN path[1] ELSE ""

\* pathname.match(/\/embed\/([a-zA-Z0-9_-]{11})/)
EmbedMatch(path) == Len(path) >= 2 /\ path[1] = "embed" /\ path[2] \in VideoIds

Unresolvable == [type |-> "null", id |-> ""]

\* parseYouTubeIdApp without the embed rule (fault injection for C19)
parseYouTubeIdAppNoEmbed(r) ==
    IF r.token # "" THEN [type |-> "video", id |-> r.token]
    ELSE IF ~r.url THEN Unresolvable
    ELSE IF IncludesYoutube(r.host) /\ r.list # "" THEN [type |-> "playlist", id |-> r.list]
    ELSE IF r.host = "youtu.be" THEN [type |-> "video", id |-> PathSlice1(r.path)]
    ELSE IF IncludesYoutube(r.host) /\ r.v # "" THEN [type |-> "video", id |-> r.v]
    ELSE Unresolvable

\* parseYouTubeId of App.jsx: {type, id}
parseYouTubeIdApp(r) ==
    IF r.token # "" THEN [type |-> "video", id |-> r.token]
    ELSE IF ~r.url THEN Unresolvable
    ELSE IF IncludesYoutube(r.host) /\ r.list # "" THEN [type |-> "playlist", id |-> r.list]
    ELSE IF r.host = "youtu.be" THEN [type |-> "video", id |-> PathSlice1(r.path)]
    ELSE IF IncludesYoutube(r.host) /\ r.v # "" THEN [type |-> "video", id |-> r.v]
    ELSE IF IncludesYoutube(r.host) /\ EmbedMatch(r.path)
         THEN [type |-> "video", id |-> r.path[2]]
    ELSE Unresolvable

\* parseYouTubeId of part_000: the id or null, written as {type, id} as well
parseYouTubeIdPart(r) ==
    IF r.token # "" THEN [type |-> "video", id |-> r.token]
    ELSE IF ~r.url THEN Unresolvable
    ELSE IF r.host = "youtu.be" THEN [type |-> "video", id |-> PathSlice1(r.path)]
    ELSE IF IncludesYoutube(r.host) /\ r.v # "" THEN [type |-> "video", id |-> r.v]
    ELSE IF IncludesYoutube(r.host) /\ EmbedMatch(r.path)
         THEN [type |-> "video", id |-> r.path[2]]
    ELSE Unresolvable

----------------------------------------------------------------------------
(* Video handlers *)

\* AddVideoMeta without the test of exists (fault injection for C10)
AddVideoMetaAlways(videos, exists, meta) == <<meta>> \o videos

\* part000: videos: exists ? p.videos : [meta, ...p.videos]
AddVideoMeta(videos, exists, meta) == IF exists THEN videos ELSE <<meta>> \o videos

\* part000: handleAddVideo (ensureProjectSelected included)
handleAddVideoPart(ref) ==
    /\ Event /\ variant = "part000"
    /\ LET ensured == IF currentProjectId = Null THEN projects[1].id ELSE currentProjectId
           r == parseYouTubeIdPart(ref)
           exists == HasVideo(currentProject, r.id)
           meta == NewVideo(nextId, r.id, "Untitled Video", Undefined)
       IN  IF r.type = "null" \/ r.id = ""
           THEN /\ lastAlert' = "Please paste a valid YouTube link or ID."
                /\ Commit([Held EXCEPT !.currentProjectId = ensured])
           ELSE /\ exists \/ IdsLeft >= 1
                /\ Commit([Held EXCEPT
                      !.currentProjectId = ensured,
                      !.projects = Map(projects, LAMBDA p :
                          IF p.id = currentProject.id
                          THEN [p EXCEPT !.videos = AddVideoMeta(p.videos, exists, meta)]
                          ELSE p),
                      !.currentVideoId = r.id,
                      !.nextId = IF exists THEN nextId ELSE nextId + 1])
                /\ lastAlert' = ""
    /\ UNCHANGED <<variant, phase, isLoading, pending, file>>

\* setState of handleAddVideo in App.jsx: the videos go to the end of the project
\* whose id is the id of the project the handler was created for
AppendVideos(ps, pid, videosToAdd) ==
    Map(ps, LAMBDA p : IF p.id = pid THEN [p EXCEPT !.videos = p.videos \o videosToAdd]
                       ELSE p)

\* what the continuation of handleAddVideo reads of the currentProject it closed
\* over: its id and the videoIds of its videos
Closure(p) == [id |-> p.id, videos |-> Map(p.videos, LAMBDA v : [videoId |-> v.videoId])]

\* setIsLoading(false) as the last statement of the try block: a return inside
\* the block skips it (fault injection for C29)
isLoadingAtEndOfTry(returnedEarly) == returnedEarly

\* finally { setIsLoading(false) }: isLoading when handleAddVideo is over,
\* whether it returned inside the try block or ran to its end
isLoadingAtEnd(returnedEarly) == FALSE

\* app: handleAddVideo up to its return or its await; the Add button is disabled
\* while isLoading
handleAddVideo(ref) ==
    /\ Event /\ variant = "app" /\ ~isLoading
    /\ LET r == parseYouTubeIdApp(ref)
       IN  IF r.type = "null" \/ r.id = ""
           THEN /\ lastAlert' = "Please paste a valid YouTube video or playlist link/ID."
                /\ NoCommit
                /\ UNCHANGED <<isLoading, pending>>
           ELSE IF r.type = "video"
           THEN IF HasVideo(currentProject, r.id)
                THEN /\ Commit([Held EXCEPT !.currentVideoId = r.id])
                     /\ lastAlert' = ""
                     /\ isLoading' = isLoadingAtEnd(TRUE)
                     /\ UNCHANGED pending
                ELSE /\ IdsLeft >= 1
                     /\ Commit([Held EXCEPT
                           !.projects = AppendVideos(projects, currentProject.id,
                               << NewVideo(nextId, r.id, "Untitled Video", Undefined) >>),
                           !.currentVideoId = r.id,
                           !.nextId = nextId + 1])
                     /\ lastAlert' = ""
                     /\ isLoading' = isLoadingAtEnd(FALSE)
                     /\ UNCHANGED pending
           ELSE /\ isLoading' = TRUE
                /\ pending' = << [project |-> Closure(currentProject), ref |-> ref] >>
                /\ lastAlert' = ""
                /\ Commit(Held)    \* setIsLoading(true) renders
    /\ UNCHANGED <<variant, phase, file>>

\* the videoIds of data.items the playlist API may answer with
PlaylistItems == { <<>>, <<"a">>, <<"a", "b">>, <<"b", "b">> }

\* fetchPlaylistVideos with generateId called once for the whole list (fault
\* injection for C5)
fetchPlaylistVideosOneId(ok, items, sourceUrl, first) ==
    IF ok
    THEN [i \in 1..Len(items) |-> NewVideo(first, items[i], "Playlist item", i)]
    ELSE IF sourceUrl.url /\ sourceUrl.v # ""
         THEN << NewVideo(first, sourceUrl.v, "Video from Playlist", 1) >>
         ELSE <<>>

\* fetchPlaylistVideos: ok says whether the API answered (response.ok), items are
\* the videoIds it listed, first is the first id generateId returns
fetchPlaylistVideos(ok, items, sourceUrl, first) ==
    IF ok
    THEN [i \in 1..Len(items) |-> NewVideo(first + i - 1, items[i], "Playlist item", i)]
    ELSE IF sourceUrl.url /\ sourceUrl.v # ""
         THEN << NewVideo(first, sourceUrl.v, "Video from Playlist", 1) >>
         ELSE <<>>

\* playlistVideos.filter(video => !existingVideoIds.has(video.videoId))
FilterExisting(playlistVideos, project) ==
    Filter(playlistVideos, LAMBDA video : ~HasVideo(project, video.videoId))

\* what the user is shown last when playlistVideos is empty: the confirm dialog,
\* and the instructions if the answer was OK
EmptyPlaylistAlert(useManual) ==
    IF useManual THEN "To manually add playlist videos"
    ELSE "Automatic playlist import requires a YouTube API key"

\* app: handleAddVideo from the resolution of its await to its end; useManual is
\* what confirm() returned when the playlist came back empty.  setIsLoading(false)
\* renders on every path.
FetchSettled(ok, items, useManual) ==
    /\ phase = "running" /\ pending # <<>>
    /\ LET cl == pending[1]
           playlistVideos == fetchPlaylistVideos(ok, items, cl.ref, nextId)
           videosToAdd == FilterExisting(playlistVideos, cl.project)
       IN  /\ Len(playlistVideos) <= IdsLeft
           /\ ok \/ items = <<>>
           /\ Len(playlistVideos) = 0 \/ ~useManual
           /\ IF Len(playlistVideos) = 0
              THEN /\ lastAlert' = EmptyPlaylistAlert(useManual)
                   /\ Commit(Held)
              ELSE IF Len(videosToAdd) = 0
              THEN /\ lastAlert' = "All videos from this playlist are already in the project."
                   /\ Commit(Held)
              ELSE /\ lastAlert' = IF Len(videosToAdd) = 1
                                   THEN "Added 1 video from the playlist"
                                   ELSE "Added videos from the playlist"
                   /\ Commit([Held EXCEPT
                         !.projects = AppendVideos(projects, cl.project.id, videosToAdd),
                         !.currentVideoId = videosToAdd[1].videoId,
                         !.nextId = nextId + Len(playlistVideos)])
           /\ isLoading' = isLoadingAtEnd(Len(videosToAdd) = 0)
    /\ pending' = <<>>
    /\ UNCHANGED <<variant, phase, file>>

\* the answer of the fetch among the events of the session
PlaylistFetched(ok, items, useManual) == Event /\ FetchSettled(ok, items, useManual)

\* the Open button of the video list: setCurrentVideoId(videoId)
handleVideoSelect(videoId) ==
    /\ Event
    /\ HasVideo(currentProject, videoId)
    /\ Commit([Held EXCEPT !.currentVideoId = videoId])
    /\ lastAlert' = ""
    /\ UNCHANGED <<variant, phase, isLoading, pending, file>>

\* handleSetTitle: title is what prompt("Video title:") returned
handleSetTitle(title) ==
    /\ Event
    /\ currentVideo # <<>>
    /\ lastAlert' = ""
    /\ IF title = PromptCancel
       THEN NoCommit
       ELSE Commit([Held EXCEPT !.projects =
               SetVideoTitle(projects, currentProject.id, currentVideo[1].videoId, title)])
    /\ UNCHANGED <<variant, phase, isLoading, pending, file>>

\* confirmed is what confirm("Remove this video from project?") returned
handleRemoveVideo(videoId, confirmed) ==
    /\ Event
    /\ lastAlert' = ""
    /\ IF ~confirmed
       THEN NoCommit
       ELSE Commit([Held EXCEPT
               !.projects = Map(projects, LAMBDA p :
                   IF p.id # currentProject.id THEN p
                   ELSE [p EXCEPT !.videos = Filter(p.videos,
                                                LAMBDA v : v.videoId # videoId)]),
               !.currentVideoId = IF currentVideoId = videoId THEN NullVideoId
                                  ELSE currentVideoId])
    /\ UNCHANGED <<variant, phase, isLoading, pending, file>>

----------------------------------------------------------------------------
(* The wrappers useYouTubePlayer / useYouTube return *)

\* what the player may report to the watcher as its time, in seconds
WatchedTimes == {5, 7}
\* YT.PlayerState: 1 playing, 2 paused
PlayerStates == {1, 2}
\* only save if time changed by this many seconds
SaveThreshold == 5

\* playerRef.current[method](...): a TypeError when playerRef.current is null or
\* the method is not there
Invoke(w, result) ==
    IF w \in {"fresh", "ready"} THEN [threw |-> FALSE, value |-> result]
    ELSE [threw |-> TRUE, value |-> 0]

\* hasMethod("getCurrentTime") ? Math.floor(playerRef.current.getCurrentTime() || 0) : 0
getCurrentTime(w, seconds) ==
    IF hasMethod(w) THEN Invoke(w, seconds) ELSE [threw |-> FALSE, value |-> 0]

\* hasMethod("getPlayerState") ? playerRef.current.getPlayerState() : -1
getPlayerState(w, state) ==
    IF hasMethod(w) THEN Invoke(w, state) ELSE [threw |-> FALSE, value |-> -1]

\* seekTo, play and pause: if (hasMethod(m)) try { playerRef.current[m](...) }
\* catch {}; sent says whether the player got the command
PlayerCommand(w) ==
    [threw |-> FALSE, sent |-> hasMethod(w) /\ ~Invoke(w, 0).threw]

seekTo(w) == PlayerCommand(w)

play(w) == PlayerCommand(w)

pause(w) == PlayerCommand(w)

----------------------------------------------------------------------------
(* Note and bookmark handlers *)

\* the text handleAddNote stores, or "" when it rejects: type "input" reads the
\* draft of the text area, type "prompt" what prompt("Enter your note:") returned
NoteText(type, noteDraft, promptText) ==
    IF type = "input" THEN Trim(noteDraft)
    ELSE IF promptText \in {PromptCancel, ""} THEN ""
    ELSE promptText

NoteAlert(type) == IF type = "input" THEN "Write a note first." ELSE "Note cannot be empty."

\* Prepend with the new item put last (fault injection for C12)
PrependLast(item, list) == Append(list, item)

\* [note, ...v.notes] and [bookmark, ...v.bookmarks]
Prepend(item, list) == <<item>> \o list

\* setState(prev => ...) of a handler that replaces a list of the current video
SetVideo(F(_)) ==
    Commit([Held EXCEPT !.projects = UpdateVideo(projects, currentProject.id,
                                         currentVideo[1].videoId, F)])

\* handleAddNote(type); seconds is what the player would report as its time
handleAddNote(type, noteDraft, promptText, seconds) ==
    /\ Event
    /\ currentVideo # <<>>
    /\ LET text == NoteText(type, noteDraft, promptText)
           time == getCurrentTime(widget, seconds).value
           note == [id |-> nextId, t |-> time, text |-> text]
       IN  IF text = ""
           THEN /\ lastAlert' = NoteAlert(type)
                /\ NoCommit
           ELSE /\ IdsLeft >= 1
                /\ lastAlert' = ""
                /\ Commit([Held EXCEPT
                      !.projects = UpdateVideo(projects, currentProject.id,
                                       currentVideo[1].videoId,
                                       LAMBDA v : [v EXCEPT !.notes = Prepend(note, v.notes)]),
                      !.nextId = nextId + 1])
    /\ UNCHANGED <<variant, phase, isLoading, pending, file>>

\* text is what prompt("Edit note ...") returned
handleEditNote(noteId, text) ==
    /\ Event
    /\ currentVideo # <<>>
    /\ lastAlert' = ""
    /\ IF ~Some(currentVideo[1].notes, LAMBDA n : n.id = noteId) \/ text = PromptCancel
       THEN NoCommit
       ELSE SetVideo(LAMBDA v : [v EXCEPT !.notes = Map(v.notes, LAMBDA n :
                         IF n.id = noteId THEN [n EXCEPT !.text = text] ELSE n)])
    /\ UNCHANGED <<variant, phase, isLoading, pending, file>>

handleDeleteNote(noteId) ==
    /\ Event
    /\ currentVideo # <<>>
    /\ lastAlert' = ""
    /\ SetVideo(LAMBDA v : [v EXCEPT !.notes = Filter(v.notes, LAMBDA n : n.id # noteId)])
    /\ UNCHANGED <<variant, phase, isLoading, pending, file>>

\* handleAddBookmark; bookmarkTitle is the title field, seconds is what the
\* player would report as its time
handleAddBookmark(bookmarkTitle, seconds) ==
    /\ Event
    /\ currentVideo # <<>>
    /\ IdsLeft >= 1
    /\ lastAlert' = ""
    /\ LET time == getCurrentTime(widget, seconds).value
           bookmark == [id |-> nextId, t |-> time,
                        title |-> IF bookmarkTitle = "" THEN "Bookmark" ELSE bookmarkTitle,
                        tag |-> "", color |-> "emerald"]
       IN  Commit([Held EXCEPT
              !.projects = UpdateVideo(projects, currentProject.id, currentVideo[1].videoId,
                               LAMBDA v : [v EXCEPT !.bookmarks = Prepend(bookmark, v.bookmarks)]),
              !.nextId = nextId + 1])
    /\ UNCHANGED <<variant, phase, isLoading, pending, file>>

handleDeleteBookmark(bookmarkId) ==
    /\ Event
    /\ currentVideo # <<>>
    /\ lastAlert' = ""
    /\ SetVideo(LAMBDA v : [v EXCEPT !.bookmarks = Filter(v.bookmarks,
                                                      LAMBDA b : b.id # bookmarkId)])
    /\ UNCHANGED <<variant, phase, isLoading, pending, file>>

\* MoveToFront with the bookmark put back at the end of the list (fault
\* injection for C14)
MoveToBack(bookmarks, fromIndex) ==
    [i \in 1..(Len(bookmarks) - 1) |-> IF i < fromIndex THEN bookmarks[i]
                                       ELSE bookmarks[i + 1]]
    \o << bookmarks[fromIndex] >>

\* bookmarks.splice(fromIndex, 1) then bookmarks.splice(0, 0, movedBookmark)
MoveToFront(bookmarks, fromIndex) ==
    << bookmarks[fromIndex] >> \o
    [i \in 1..(Len(bookmarks) - 1) |-> IF i < fromIndex THEN bookmarks[i]
                                       ELSE bookmarks[i + 1]]

\* handleBookmarkDrop / onDropBookmark: the new order is computed from the
\* bookmarks of currentVideo
handleBookmarkDrop(bookmarkId) ==
    /\ Event
    /\ currentVideo # <<>>
    /\ lastAlert' = ""
    /\ LET fromIndex == FindIndex(currentVideo[1].bookmarks, LAMBDA b : b.id = bookmarkId)
           bookmarks == MoveToFront(currentVideo[1].bookmarks, fromIndex)
       IN  IF fromIndex < 1
           THEN NoCommit
           ELSE SetVideo(LAMBDA v : [v EXCEPT !.bookmarks = bookmarks])
    /\ UNCHANGED <<variant, phase, isLoading, pending, file>>

\* the currentVideo of the render whose handleAddNote and handleAddBookmark the
\* keydown listener calls.  App.jsx: the effect that installs the listener
\* depends on [getCurrentTime, seekTo, handlePlayPause], all of them useCallback
\* values that never change, so the listener is the one of the first render, in
\* which currentVideoId is null.  part_000: the dependencies are functions made
\* anew by every render, and the listener is the last render's.
KeyListenerVideo == IF variant = "app" THEN <<>> ELSE currentVideo

\* handleKeyDown / onKey for the keys "n" and "b"; tagName is that of the
\* event's target.  Both handlers return at once without a currentVideo.
handleKeyDown(key, tagName, promptText, bookmarkTitle, seconds) ==
    /\ phase = "running"
    /\ IF tagName = "INPUT" \/ KeyListenerVideo = <<>>
       THEN /\ Event
            /\ NoCommit
            /\ lastAlert' = ""
            /\ UNCHANGED <<variant, phase, isLoading, pending, file>>
       ELSE IF key = "n"
       THEN handleAddNote("prompt", "", promptText, seconds)
       ELSE handleAddBookmark(bookmarkTitle, seconds)

----------------------------------------------------------------------------
(* The player and the lastTime watcher *)

\* window.onYouTubeIframeAPIReady: the API script has loaded; the callback of
\* the last run of the player effect creates the player
YouTubeIframeAPIReady ==
    /\ Event /\ ~ytLoaded
    /\ ytLoaded' = TRUE
    /\ widget' = createPlayer(widget, currentVideoId)
    /\ UNCHANGED <<variant, phase, storage, projects, currentProjectId, currentVideoId,
                   curVideo, selCurrent, isLoading, pending, file, nextId, lastAlert,
                   methodsAtOnce, resumeTime, isVideoPlaying, watching, lastSavedTime,
                   timeArg, timeText, permissionRequests, timers, shown>>

\* the onReady callback of the hook's caller: the auto-resume seek it asks for
\* (500 ms later), none when the resume time it sees is 0
onReady(resume) == [seeks |-> resume > 0, target |-> resume]

\* the player's onReady event: the player has its methods now if it did not have
\* them before, and the callback runs (it sets no state)
PlayerReady ==
    /\ Event /\ widget \in {"created", "fresh"}
    /\ widget' = "ready"
    /\ UNCHANGED <<variant, phase, storage, projects, currentProjectId, currentVideoId,
                   curVideo, selCurrent, isLoading, pending, file, nextId, lastAlert,
                   ytLoaded, methodsAtOnce, resumeTime, isVideoPlaying, watching,
                   lastSavedTime, timeArg, timeText, permissionRequests, timers, shown>>

\* the body of handlePlayPause / playPause(mode); state is what the player
\* reports as its state.  In App.jsx the render a changed isVideoPlaying causes
\* runs the player effect.
PlayPause(mode, state) ==
    IF ~isReady(widget)
    THEN UNCHANGED <<widget, resumeTime, isVideoPlaying>>
    ELSE LET playing == IF mode = "play" THEN TRUE
                        ELSE IF mode = "pause" THEN FALSE
                        ELSE getPlayerState(widget, state).value # 1
         IN  /\ isVideoPlaying' = playing
             /\ widget' = IF playing # isVideoPlaying THEN PlayerEffect(Held).widget
                          ELSE widget
             /\ resumeTime' = IF playing # isVideoPlaying
                              THEN PlayerEffect(Held).resumeTime ELSE resumeTime

\* a click on Play / Pause, or the space key
handlePlayPause(mode, state) ==
    /\ Event
    /\ lastAlert' = ""
    /\ PlayPause(mode, state)
    /\ UNCHANGED <<variant, phase, storage, projects, currentProjectId, currentVideoId,
                   curVideo, selCurrent, isLoading, pending, file, nextId,
                   ytLoaded, methodsAtOnce, watching, lastSavedTime,
                   timeArg, timeText, permissionRequests, timers, shown>>

\* a tick of the watcher's interval; seconds is what the player would report.
\* App.jsx writes when the time read is SaveThreshold or more away from
\* lastSavedTime, part_000 whenever a video is open and the player is ready.
WatcherFires(seconds) ==
    /\ phase = "running" /\ watching
    /\ lastAlert' = ""
    /\ LET currentTime == getCurrentTime(widget, seconds).value
           diff == IF currentTime >= lastSavedTime THEN currentTime - lastSavedTime
                   ELSE lastSavedTime - currentTime
           writes == IF variant = "app" THEN diff >= SaveThreshold
                     ELSE currentVideoId # NullVideoId /\ isReady(widget)
       IN  IF writes
           THEN Commit([Held EXCEPT
                   !.projects = SetVideoLastTime(projects, currentProject.id,
                                                 currentVideoId, currentTime),
                   !.lastSavedTime = IF variant = "app" THEN currentTime
                                     ELSE lastSavedTime])
           ELSE NoCommit
    /\ UNCHANGED <<variant, phase, isLoading, pending, file>>

\* a tick among the events of the session
WatcherTick(seconds) == Event /\ WatcherFires(seconds)

----------------------------------------------------------------------------
(* The program *)

\* the notes and bookmarks the page shows buttons for
OpenNoteIds ==
    IF phase = "running" /\ currentVideo # <<>>
    THEN {currentVideo[1].notes[i].id : i \in 1..Len(currentVideo[1].notes)} ELSE {}

OpenBookmarkIds ==
    IF phase = "running" /\ currentVideo # <<>>
    THEN {currentVideo[1].bookmarks[i].id : i \in 1..Len(currentVideo[1].bookmarks)}
    ELSE {}

Handlers ==
    \/ \E id \in ProjectIds(projects) \cup UnknownIds : handleProjectChange(id)
    \/ \E name \in {PromptCancel, "P"} : handleAddProject(name)
    \/ \E name \in {PromptCancel, "R"} : handleRenameProject(name)
    \/ \E confirmed \in BOOLEAN : handleDeleteProject(confirmed)
    \/ handleExportJSON
    \/ \E doc \in {file, ForeignFile, NoVideosFile, Corrupt} : handleImportJSON(doc)
    \/ \E ref \in Refs : handleAddVideoPart(ref)
    \/ \E ref \in Refs : handleAddVideo(ref)
    \/ \E ok \in BOOLEAN, items \in PlaylistItems, useManual \in BOOLEAN :
          PlaylistFetched(ok, items, useManual)
    \/ \E videoId \in VideoIds : handleVideoSelect(videoId)
    \/ \E title \in {PromptCancel, "T"} : handleSetTitle(title)
    \/ \E videoId \in VideoIds, confirmed \in BOOLEAN : handleRemoveVideo(videoId, confirmed)
    \/ \E type \in {"input", "prompt"}, noteDraft \in NoteTexts,
          promptText \in PromptAnswers, time \in PlayerTimes :
          handleAddNote(type, noteDraft, promptText, time)
    \/ \E noteId \in OpenNoteIds \cup UnknownIds, text \in {PromptCancel, "edited"} :
          handleEditNote(noteId, text)
    \/ \E noteId \in OpenNoteIds \cup UnknownIds : handleDeleteNote(noteId)
    \/ \E bookmarkTitle \in {"", "B"}, time \in PlayerTimes :
          handleAddBookmark(bookmarkTitle, time)
    \/ \E key \in {"n", "b"}, tagName \in {"BODY", "INPUT"}, promptText \in PromptAnswers,
          bookmarkTitle \in {"", "B"}, seconds \in PlayerTimes :
          handleKeyDown(key, tagName, promptText, bookmarkTitle, seconds)
    \/ \E bookmarkId \in OpenBookmarkIds \cup UnknownIds : handleDeleteBookmark(bookmarkId)
    \/ \E bookmarkId \in OpenBookmarkIds \cup UnknownIds : handleBookmarkDrop(bookmarkId)
    \/ \E mode \in {"play", "pause", "toggle"}, state \in PlayerStates :
          handlePlayPause(mode, state)
    \/ \E seconds \in WatchedTimes : WatcherTick(seconds)

Next == LoadState \/ Handlers \/ YouTubeIframeAPIReady \/ PlayerReady

Spec == Init /\ [][Next]_vars

----------------------------------------------------------------------------
(* formatTime *)

\* JS NaN as a number of seconds (JS null is Null)
NaN == -2

\* the arguments formatTime is applied to
TimeArgs == (0..MaxSeconds) \cup {35999, 36000, 86399, 360000} \cup {NaN, Null}

DigitChars == <<"0", "1", "2", "3", "4", "5", "6", "7", "8", "9">>

\* String(n) of a non-negative integer: its decimal digits
RECURSIVE String(_)
String(n) ==
    IF n < 10 THEN << DigitChars[n + 1] >>
    ELSE String(n \div 10) \o << DigitChars[(n % 10) + 1] >>

\* padStart that pads nothing (fault injection for C20)
padStartNothing(str, targetLength, padString) == str

\* str.padStart(targetLength, padString) for a padString of one character
RECURSIVE padStart(_, _, _)
padStart(str, targetLength, padString) ==
    IF Len(str) >= targetLength THEN str
    ELSE padStart(<<padString>> \o str, targetLength, padString)

\* formatTime(seconds); Math.floor of an integer is the integer
formatTime(seconds) ==
    IF seconds = NaN \/ seconds = Null THEN <<"0", ":", "0", "0">>
    ELSE LET totalSeconds == seconds
             hours == totalSeconds \div 3600
             minutes == (totalSeconds % 3600) \div 60
             secs == totalSeconds % 60
             formattedMinutes == IF hours > 0 THEN padStart(String(minutes), 2, "0")
                                 ELSE String(minutes)
             formattedSeconds == padStart(String(secs), 2, "0")
         IN  IF hours > 0
             THEN String(hours) \o <<":">> \o formattedMinutes \o <<":">> \o formattedSeconds
             ELSE formattedMinutes \o <<":">> \o formattedSeconds

\* a call of formatTime is to be made with an argument of TimeArgs
FormatInit ==
    /\ variant \in Variants
    /\ phase = "start"
    /\ storage = Absent
    /\ projects = <<>>
    /\ currentProjectId = Null
    /\ currentVideoId = NullVideoId
    /\ curVideo = <<>>
    /\ selCurrent = NullVideoId
    /\ isLoading = FALSE
    /\ pending = <<>>
    /\ file = Absent
    /\ nextId = 1
    /\ lastAlert = ""
    /\ events = 0
    /\ ytLoaded = FALSE
    /\ methodsAtOnce = FALSE
    /\ widget = "none"
    /\ resumeTime = 0
    /\ isVideoPlaying = FALSE
    /\ watching = FALSE
    /\ lastSavedTime = 0
    /\ timeArg \in TimeArgs
    /\ timeText = <<>>
    /\ permissionRequests = <<>>
    /\ timers = <<>>
    /\ shown = <<>>

\* the call returns
FormatTimeCall ==
    /\ timeText = <<>>
    /\ timeText' = formatTime(timeArg)
    /\ UNCHANGED <<variant, phase, storage, projects, currentProjectId, currentVideoId,
                   curVideo, selCurrent, isLoading, pending, file, nextId, lastAlert,
                   events, ytLoaded, methodsAtOnce, widget, resumeTime, isVideoPlaying,
                   watching, lastSavedTime, timeArg, permissionRequests, timers, shown>>

FormatNext == FormatTimeCall

FormatSpec == FormatInit /\ [][FormatNext]_vars

----------------------------------------------------------------------------
(* Reminders.  They read and write nothing of the store and are followed under *)
(* ReminderSpec: the program starts, the player comes up, reminders are asked  *)
(* for, the permission requests settle and the timers fall due.                *)

\* what prompt("Set reminder in minutes (default 5):", "5") may return
MinuteAnswers == {PromptCancel, "", "0", "abc", "5"}

\* parseInt(reminderMinutes || "5", 10)
parseMinutes(reminderMinutes) ==
    IF reminderMinutes \in {"", "5"} THEN 5
    ELSE IF reminderMinutes = "0" THEN 0
    ELSE NaN

\* the payloads of the two buttons: "Set break reminder" and a bookmark's "Remind"
Payloads == { [title |-> "Reminding you for a break", action |-> "videoPause"],
              [title |-> "Revisit", action |-> ""] }

\* what Notification.requestPermission() may resolve to
Permissions == {"granted", "denied", "default"}

\* Granted taking every answer but "denied" for a permission (fault injection
\* for C21)
GrantedUnlessDenied(permission) == permission # "denied"

\* the negation of: permission !== "granted"
Granted(permission) == permission = "granted"

NotSupportedAlert == "Notifications not supported in this browser."
DeniedAlert == "Notification permission denied."
ReminderSetAlert == "Reminder set for minute(s)."

\* handleScheduleReminder / scheduleReminder up to its return; supported is
\* "Notification" in window.  The timer that pauses the video is set after the
\* permission was asked for, whatever the answer will be.
handleScheduleReminder(payload, reminderMinutes, supported) ==
    /\ Event
    /\ LET minutes == parseMinutes(reminderMinutes)
       IN  IF reminderMinutes = PromptCancel
           THEN /\ lastAlert' = ""
                /\ UNCHANGED <<permissionRequests, timers>>
           ELSE IF minutes = NaN \/ minutes <= 0
           THEN /\ lastAlert' = "Enter minutes > 0"
                /\ UNCHANGED <<permissionRequests, timers>>
           ELSE IF ~supported
           THEN /\ lastAlert' = NotSupportedAlert
                /\ UNCHANGED <<permissionRequests, timers>>
           ELSE /\ lastAlert' = ""
                /\ permissionRequests' = Append(permissionRequests, payload)
                /\ timers' = IF payload.action = "videoPause"
                             THEN Append(timers, [kind |-> "pause", title |-> ""])
                             ELSE timers
    /\ UNCHANGED <<variant, phase, storage, projects, currentProjectId, currentVideoId,
                   curVideo, selCurrent, isLoading, pending, file, nextId,
                   ytLoaded, methodsAtOnce, widget, resumeTime, isVideoPlaying, watching,
                   lastSavedTime, timeArg, timeText, shown>>

\* a sequence without its i-th element
RemoveAt(seq, i) == SubSeq(seq, 1, i - 1) \o SubSeq(seq, i + 1, Len(seq))

\* the then() callback of the i-th permission request that is not yet settled
PermissionResolved(i, permission) ==
    /\ Event
    /\ i \in 1..Len(permissionRequests)
    /\ IF ~Granted(permission)
       THEN /\ lastAlert' = DeniedAlert
            /\ UNCHANGED timers
       ELSE /\ timers' = Append(timers, [kind |-> "notify",
                                         title |-> permissionRequests[i].title])
            /\ lastAlert' = ReminderSetAlert
    /\ permissionRequests' = RemoveAt(permissionRequests, i)
    /\ UNCHANGED <<variant, phase, storage, projects, currentProjectId, currentVideoId,
                   curVideo, selCurrent, isLoading, pending, file, nextId,
                   ytLoaded, methodsAtOnce, widget, resumeTime, isVideoPlaying, watching,
                   lastSavedTime, timeArg, timeText, shown>>

\* the i-th timer is due and shows its notification:
\* new Notification(payload.title, ...)
NotificationDue(i) ==
    /\ Event
    /\ i \in 1..Len(timers) /\ timers[i].kind = "notify"
    /\ shown' = Append(shown, timers[i].title)
    /\ timers' = RemoveAt(timers, i)
    /\ UNCHANGED <<variant, phase, storage, projects, currentProjectId, currentVideoId,
                   curVideo, selCurrent, isLoading, pending, file, nextId, lastAlert,
                   ytLoaded, methodsAtOnce, widget, resumeTime, isVideoPlaying, watching,
                   lastSavedTime, timeArg, timeText, permissionRequests>>

\* the i-th timer is due and pauses the video: handlePlayPause("pause")
PauseDue(i, state) ==
    /\ Event
    /\ i \in 1..Len(timers) /\ timers[i].kind = "pause"
    /\ PlayPause("pause", state)
    /\ timers' = RemoveAt(timers, i)
    /\ UNCHANGED <<variant, phase, storage, projects, currentProjectId, currentVideoId,
                   curVideo, selCurrent, isLoading, pending, file, nextId, lastAlert,
                   ytLoaded, methodsAtOnce, watching, lastSavedTime,
                   timeArg, timeText, permissionRequests, shown>>

ReminderNext ==
    \/ LoadState
    \/ YouTubeIframeAPIReady
    \/ PlayerReady
    \/ \E payload \in Payloads, reminderMinutes \in MinuteAnswers, supported \in BOOLEAN :
          handleScheduleReminder(payload, reminderMinutes, supported)
    \/ \E i \in 1..MaxEvents, permission \in Permissions : PermissionResolved(i, permission)
    \/ \E i \in 1..MaxEvents : NotificationDue(i)
    \/ \E i \in 1..MaxEvents, state \in PlayerStates : PauseDue(i, state)

ReminderSpec == Init /\ [][ReminderNext]_vars

----------------------------------------------------------------------------
(* Properties *)

\* the steps of the operations the properties speak about
DeleteProjectStep == handleDeleteProject(TRUE)

AddVideoStep ==
    \/ \E ref \in Refs : handleAddVideo(ref) \/ handleAddVideoPart(ref)
    \/ \E ok \in BOOLEAN, items \in PlaylistItems, useManual \in BOOLEAN :
          PlaylistFetched(ok, items, useManual)

AddNoteStep ==
    \E type \in {"input", "prompt"}, noteDraft \in NoteTexts,
       promptText \in PromptAnswers, time \in PlayerTimes :
       handleAddNote(type, noteDraft, promptText, time)

AddBookmarkStep ==
    \E bookmarkTitle \in {"", "B"}, time \in PlayerTimes :
       handleAddBookmark(bookmarkTitle, time)

Distinct(seq, F(_)) ==
    \A i, j \in 1..Len(seq) : F(seq[i]) = F(seq[j]) => i = j

\* C1: in both variants the project collection of the running program is never
\* empty, whatever store operations are applied, and deleting the only project
\* leaves exactly one project, newly created and empty.
C1_NeverEmpty ==
    [][ /\ phase' = "running" => Len(projects') >= 1
        /\ (DeleteProjectStep /\ Len(projects) = 1) =>
              projects' = << NewProject(nextId, "New Project") >> ]_vars

\* the only project was deleted and replaced
C1_Witness ==
    /\ phase = "running" /\ events > 0
    /\ projects = << NewProject(nextId - 1, "New Project") >>

\* C2: in both variants, after the delete that removes the last project the
\* state holds exactly one project, with a fresh id and no videos, and
\* currentProjectId is the id of a project of the collection.
C2_DeleteAllLeavesValidCurrent ==
    [][ (DeleteProjectStep /\ DeletesLast(projects, currentProject)) =>
           /\ Len(projects') = 1
           /\ projects'[1].id \notin ProjectIds(projects)
           /\ projects'[1].videos = <<>>
           /\ currentProjectId' \in ProjectIds(projects') ]_vars

\* C3: in App.jsx, importing a project whose id is the id of a project of the
\* store ends, the duplicate-id effect having run, with pairwise distinct
\* project ids.
C3_ImportResolvesCollision ==
    [][ \A doc \in {file, ForeignFile} :
           ( /\ variant = "app"
             /\ handleImportJSON(doc)
             /\ ValidProjectFile(doc)
             /\ ProjectFromJSON(doc).id \in ProjectIds(projects) )
           => ~HasDuplicateIds(projects') ]_vars

NoDuplicateVideoIds(ps) ==
    \A i \in 1..Len(ps) : Distinct(ps[i].videos, LAMBDA v : v.videoId)

\* C4: an addVideo call (a single video, or a playlist and whatever its fetch
\* returns) on a store in which no project holds two videos with the same
\* videoId leaves such a store.
C4_NoDuplicateVideoIds ==
    [][ (AddVideoStep /\ NoDuplicateVideoIds(projects))
           => NoDuplicateVideoIds(projects') ]_vars

UniqueIds(ps) ==
    /\ Distinct(ps, LAMBDA p : p.id)
    /\ \A i \in 1..Len(ps) :
          /\ Distinct(ps[i].videos, LAMBDA v : v.id)
          /\ \A j \in 1..Len(ps[i].videos) :
                /\ Distinct(ps[i].videos[j].notes, LAMBDA n : n.id)
                /\ Distinct(ps[i].videos[j].bookmarks, LAMBDA b : b.id)

\* C5: generateId returning ids that are not in use, createProject, addVideo,
\* addNote and addBookmark keep the ids unique at each level (project ids,
\* the video ids of a project, the note ids and the bookmark ids of a video):
\* a step that leads from unique ids to ids that are not unique is a step of
\* none of the four.
C5_IdsStayUnique ==
    [][ (UniqueIds(projects) /\ ~UniqueIds(projects')) =>
           ~ \/ \E name \in {PromptCancel, "P"} : handleAddProject(name)
             \/ AddVideoStep
             \/ AddNoteStep
             \/ AddBookmarkStep ]_vars

\* a created project holds an added video with an added note or bookmark
C5_Witness ==
    /\ phase = "running" /\ UniqueIds(projects)
    /\ \E i \in 1..Len(projects) :
          /\ projects[i].name = "P"
          /\ projects[i].id \in 1..MaxIds
          /\ \E j \in 1..Len(projects[i].videos) :
                LET v == projects[i].videos[j]
                IN  /\ v.id \in 1..MaxIds
                    /\ \/ Len(v.notes) = 1 /\ v.notes[1].id \in 1..MaxIds
                       \/ Len(v.bookmarks) = 1 /\ v.bookmarks[1].id \in 1..MaxIds

\* the text handed to addNote is empty after trimming
EmptyAfterTrim(type, noteDraft, promptText) ==
    IF type = "input" THEN Trim(noteDraft) = ""
    ELSE promptText # PromptCancel /\ Trim(promptText) = ""

\* C6: in both variants and on both entry paths, addNote with a text that is
\* empty after trimming leaves the notes of the open video unchanged and tells
\* the user.
C6_EmptyNoteRejected ==
    [][ \A type \in {"input", "prompt"}, noteDraft \in NoteTexts,
           promptText \in PromptAnswers, time \in PlayerTimes :
           ( /\ handleAddNote(type, noteDraft, promptText, time)
             /\ EmptyAfterTrim(type, noteDraft, promptText) )
           => /\ projects' = projects
              /\ lastAlert' # "" ]_vars

\* C7: in both variants, with the storage key absent or unparsable, loading
\* does not throw and yields the default state: one empty project, whose id
\* is currentProjectId.
C7_LoadFallsBackToDefault ==
    [][ (LoadState /\ ~Parses(storage)) =>
           /\ phase' = "running"
           /\ Len(projects') = 1
           /\ projects'[1].videos = <<>>
           /\ currentProjectId' = projects'[1].id ]_vars

\* what a restart would load from the storage record
Reloaded ==
    IF variant = "app" THEN useLocalStorage(storage, nextId) ELSE useLocalState(storage)

C9_ExportImportRoundTrip ==
    [][ /\ handleExportJSON => ProjectFromJSON(file').videos = currentProject.videos
        /\ (handleImportJSON(file) /\ ValidProjectFile(file)) =>
              /\ Len(projects') = Len(projects) + 1
              /\ projects'[Len(projects')].videos = ProjectFromJSON(file).videos
              /\ currentProject' = projects'[Len(projects')] ]_vars

\* addVideo with a reference that resolves to the videoId id, which the
\* current project holds
AddsExisting(ref, id) ==
    /\ phase = "running"
    /\ HasVideo(currentProject, id)
    /\ IF variant = "app"
       THEN parseYouTubeIdApp(ref) = [type |-> "video", id |-> id] /\ handleAddVideo(ref)
       ELSE parseYouTubeIdPart(ref) = [type |-> "video", id |-> id] /\ handleAddVideoPart(ref)

\* C10: in both variants, addVideo with a reference to a video of the current
\* project changes nothing in the projects and opens that video.
C10_AddExistingOnlySelects ==
    [][ \A ref \in Refs, id \in VideoIds :
           AddsExisting(ref, id) =>
              /\ projects' = projects
              /\ currentProjectId' = currentProjectId
              /\ nextId' = nextId
              /\ currentVideoId' = id ]_vars

\* part000: the older of the two videos of the current project is open again
C10_Witness ==
    /\ phase = "running" /\ variant = "part000"
    /\ Len(currentProject.videos) = 2
    /\ currentVideoId = currentProject.videos[2].videoId
    /\ selCurrent = currentProject.videos[2].videoId
    /\ lastAlert = ""

\* the store is what it was
StoreUnchanged == projects' = projects /\ currentProjectId' = currentProjectId

\* C11: an operation whose target does not exist leaves the store as it is:
\* selecting a project id of no project, removing / retitling / setting the
\* lastTime of a video the current project does not hold, editing or deleting
\* a note id, deleting or moving to the front a bookmark id the open video
\* does not hold.
C11_MissingTargetIsNoOp ==
    [][ /\ \A id \in UnknownIds :
              /\ handleProjectChange(id) => StoreUnchanged
              /\ handleEditNote(id, "edited") => StoreUnchanged
              /\ handleDeleteNote(id) => StoreUnchanged
              /\ handleDeleteBookmark(id) => StoreUnchanged
              /\ handleBookmarkDrop(id) => StoreUnchanged
        /\ phase = "running" =>
              \A videoId \in VideoIds :
                 ~HasVideo(currentProject, videoId) =>
                    /\ handleRemoveVideo(videoId, TRUE) => StoreUnchanged
                    /\ SetVideoTitle(projects, currentProject.id, videoId, "T") = projects
                    /\ SetVideoLastTime(projects, currentProject.id, videoId, 7) = projects
      ]_vars

\* C12: in both variants an accepted note is the first of the open video's
\* notes and a new bookmark the first of its bookmarks, the items that were
\* there following in the order they had.  (Both handlers take an id for the
\* item they add: only steps that took one are looked at.)
C12_NewItemsGoFirst ==
    [][ /\ \A type \in {"input", "prompt"}, noteDraft \in NoteTexts,
              promptText \in PromptAnswers, time \in PlayerTimes :
              ( /\ NoteText(type, noteDraft, promptText) # ""
                /\ nextId' > nextId
                /\ handleAddNote(type, noteDraft, promptText, time) )
              => /\ currentVideo' # <<>>
                 /\ currentVideo'[1].notes =
                       << [id |-> nextId, t |-> getCurrentTime(widget, time).value,
                           text |-> NoteText(type, noteDraft, promptText)] >>
                       \o currentVideo[1].notes
        /\ \A bookmarkTitle \in {"", "B"}, time \in PlayerTimes :
              (nextId' > nextId /\ handleAddBookmark(bookmarkTitle, time))
              => /\ currentVideo' # <<>>
                 /\ Len(currentVideo'[1].bookmarks) = Len(currentVideo[1].bookmarks) + 1
                 /\ currentVideo'[1].bookmarks[1].id = nextId
                 /\ currentVideo'[1].bookmarks[1].t = getCurrentTime(widget, time).value
                 /\ Tail(currentVideo'[1].bookmarks) = currentVideo[1].bookmarks ]_vars

\* a note or a bookmark was added in front of an item the open video had
C12_Witness ==
    /\ phase = "running" /\ currentVideo # <<>>
    /\ \/ /\ Len(currentVideo[1].notes) >= 2
          /\ currentVideo[1].notes[1].id = nextId - 1
       \/ /\ Len(currentVideo[1].bookmarks) >= 2
          /\ currentVideo[1].bookmarks[1].id = nextId - 1

\* videos after holds new videos in front of the videos before
AddedInFront(before, after) ==
    /\ Len(after) >= Len(before)
    /\ SubSeq(after, Len(after) - Len(before) + 1, Len(after)) = before

\* C13: in both variants the videos an addVideo call adds to a project (one
\* video, or the videos of a playlist) go in front of the videos the project
\* held.
C13_NewVideosGoFirst ==
    [][ (phase = "running" /\ AddVideoStep) =>
           /\ Len(projects') = Len(projects)
           /\ \A i \in 1..Len(projects) :
                 AddedInFront(projects[i].videos, projects'[i].videos) ]_vars

\* C14: dropping a bookmark of the open video makes it the first of the
\* video's bookmarks, the others following in the order they had: the list is
\* a permutation of what it was, and dropping the first bookmark leaves the
\* list as it was.
C14_DropMovesToFront ==
    [][ (phase = "running" /\ currentVideo # <<>>) =>
           \A i \in 1..Len(currentVideo[1].bookmarks) :
              LET before == currentVideo[1].bookmarks
                  b == before[i]
              IN  handleBookmarkDrop(b.id) =>
                     /\ currentVideo' # <<>>
                     /\ currentVideo'[1].bookmarks[1] = b
                     /\ Tail(currentVideo'[1].bookmarks) =
                           Filter(before, LAMBDA x : x.id # b.id)
                     /\ Len(currentVideo'[1].bookmarks) = Len(before)
                     /\ Range(currentVideo'[1].bookmarks) = Range(before)
                     /\ i = 1 => currentVideo'[1].bookmarks = before ]_vars

\* the stored bookmark was dropped and is again in front of a newer one
C14_Witness ==
    /\ phase = "running" /\ events >= 2 /\ currentVideo # <<>>
    /\ Len(currentVideo[1].bookmarks) >= 2
    /\ currentVideo[1].bookmarks[1].id > currentVideo[1].bookmarks[2].id
    /\ currentVideo[1].bookmarks[1].id = 104

\* the watcher tick wrote the second it read
WatcherWrites(seconds) ==
    /\ phase = "running" /\ watching
    /\ WatcherTick(seconds)
    /\ \/ variant = "part000" /\ currentVideoId # NullVideoId /\ isReady(widget)
       \/ variant = "app" /\ lastSavedTime' = getCurrentTime(widget, seconds).value
                          /\ lastSavedTime' # lastSavedTime

\* C15: setting the lastTime of a video is idempotent: after the watcher set
\* the lastTime of the open video, setting it again, for the same project,
\* video and second, yields the state the first call yielded.
C15_SetLastTimeIdempotent ==
    [][ \A seconds \in WatchedTimes :
           WatcherWrites(seconds) =>
              LET currentTime == getCurrentTime(widget, seconds).value
                  once == SetVideoLastTime(projects, currentProject.id,
                                           currentVideoId, currentTime)
              IN  /\ projects' = once
                  /\ SetVideoLastTime(once, currentProject.id, currentVideoId,
                                      currentTime) = once ]_vars

\* the watcher set the lastTime of the open video to a second it read
C15_Witness ==
    /\ phase = "running" /\ events >= 1 /\ currentVideo # <<>>
    /\ currentVideo[1].lastTime = 5

\* how far a is from b
Distance(a, b) == IF a >= b THEN a - b ELSE b - a

\* C16: in App.jsx a watcher tick that reads a second no more than
\* SaveThreshold away from the lastTime stored for the open video leaves the
\* projects as they are: the watcher writes only when the second read is
\* more than the threshold away from the stored lastTime.
C16_WritesOnlyBeyondThreshold ==
    [][ \A seconds \in WatchedTimes :
           ( /\ phase = "running" /\ variant = "app" /\ watching
             /\ currentVideo # <<>>
             /\ Distance(getCurrentTime(widget, seconds).value,
                         currentVideo[1].lastTime) <= SaveThreshold
             /\ WatcherTick(seconds) )
           => projects' = projects ]_vars

\* C17: whatever playerRef.current holds (no player yet, a player without
\* its methods, a player with them, nothing again after destroy) no wrapper
\* throws; unless the player has its methods getCurrentTime answers 0,
\* getPlayerState -1, isReady false, seekTo, play and pause send nothing, and
\* handlePlayPause changes neither the widget nor isVideoPlaying.
C17_WrappersAreSafe ==
    [][ /\ \A seconds \in WatchedTimes, state \in PlayerStates :
              /\ ~getCurrentTime(widget, seconds).threw
              /\ ~getPlayerState(widget, state).threw
              /\ ~seekTo(widget).threw /\ ~play(widget).threw /\ ~pause(widget).threw
              /\ widget \notin {"fresh", "ready"} =>
                    /\ getCurrentTime(widget, seconds).value = 0
                    /\ getPlayerState(widget, state).value = -1
                    /\ ~isReady(widget)
                    /\ ~seekTo(widget).sent /\ ~play(widget).sent /\ ~pause(widget).sent
        /\ ( /\ widget \notin {"fresh", "ready"}
             /\ (widget' # widget \/ isVideoPlaying' # isVideoPlaying) ) =>
              \A mode \in {"play", "pause", "toggle"}, state \in PlayerStates :
                 ~handlePlayPause(mode, state) ]_vars

\* the player of a video that was playing is gone: it was destroyed with the
\* removal of the video, or App.jsx put a new one in its place
C17_Witness ==
    /\ phase = "running" /\ isVideoPlaying
    /\ widget \in {"created", "destroyed"}

\* C18: for a playlist reference, a fetch that fails and a fetch that succeeds
\* with no videos leave the store unchanged, and what the user is shown after
\* the failed fetch is nothing the user can be shown after the empty one.
C18_FailureDiffersFromEmpty ==
    [][ \A useManual \in BOOLEAN :
           /\ PlaylistFetched(TRUE, <<>>, useManual) => StoreUnchanged
           /\ PlaylistFetched(FALSE, <<>>, useManual) =>
                 /\ StoreUnchanged
                 /\ \A answer \in BOOLEAN : lastAlert' # EmptyPlaylistAlert(answer) ]_vars

\* the four forms of a reference to the video id: the id itself,
\* https://youtu.be/<id>, https://www.youtube.com/watch?v=<id> and
\* https://www.youtube.com/embed/<id>?start=30 (no handler reads start)
VideoForms(id) ==
    { Ref(id, FALSE, "", <<>>, "", ""),
      Ref("", TRUE, "youtu.be", <<id>>, "", ""),
      Ref("", TRUE, "www.youtube.com", <<"watch">>, id, ""),
      Ref("", TRUE, "www.youtube.com", <<"embed", id>>, "", "") }

\* a text that is neither an id nor a URL
NotAReference == Ref("", FALSE, "", <<>>, "", "")

\* C19: in both variants parseYouTubeId resolves each of the four forms of a
\* reference to a video to exactly the id of the video, and a text that is
\* neither an id nor a URL to nothing; the handlers that call it open the
\* video, and tell the user that the text is not a valid reference.
C19_ParseResolvesForms ==
    [][ /\ \A id \in VideoIds : \A ref \in VideoForms(id) :
              /\ parseYouTubeIdApp(ref) = [type |-> "video", id |-> id]
              /\ parseYouTubeIdPart(ref) = [type |-> "video", id |-> id]
              /\ currentVideoId' = id \/ ~(handleAddVideo(ref) \/ handleAddVideoPart(ref))
        /\ parseYouTubeIdApp(NotAReference) = Unresolvable
        /\ parseYouTubeIdPart(NotAReference) = Unresolvable
        /\ (handleAddVideo(NotAReference) \/ handleAddVideoPart(NotAReference)) =>
              /\ projects' = projects
              /\ lastAlert' # "" ]_vars

\* a reference to video "b" was resolved and the video added and opened
C19_Witness ==
    /\ phase = "running" /\ events = 1 /\ lastAlert = ""
    /\ currentVideoId = "b"
    /\ HasVideo(currentProject, "b")

\* the number a sequence of digits denotes
RECURSIVE DigitsValue(_)
DigitsValue(ds) ==
    IF ds = <<>> THEN 0
    ELSE 10 * DigitsValue(SubSeq(ds, 1, Len(ds) - 1))
         + (CHOOSE d \in 0..9 : DigitChars[d + 1] = ds[Len(ds)])

IsDigits(ds) == Len(ds) >= 1 /\ \A i \in 1..Len(ds) : ds[i] \in Range(DigitChars)

\* ds is n written without padding
Unpadded(ds, n) ==
    IsDigits(ds) /\ DigitsValue(ds) = n /\ (Len(ds) > 1 => ds[1] # "0")

\* ds is n written with two digits
TwoDigits(ds, n) == IsDigits(ds) /\ Len(ds) = 2 /\ DigitsValue(ds) = n

\* the positions of the colons of a text
Colons(text) == {i \in 1..Len(text) : text[i] = ":"}

\* C20: for a number of seconds t >= 0 formatTime(t) is m:ss when t < 3600
\* and h:mm:ss when t >= 3600, with h = t div 3600, m = (t mod 3600) div 60 and
\* s = t mod 60, h unpadded, m unpadded in m:ss and of two digits in h:mm:ss,
\* s of two digits; for NaN and for null it is 0:00.
C20_FormatTimeShape ==
    timeText # <<>> =>
       IF timeArg \in {NaN, Null} THEN timeText = <<"0", ":", "0", "0">>
       ELSE LET h == timeArg \div 3600
                m == (timeArg % 3600) \div 60
                sec == timeArg % 60
                n == Len(timeText)
            IN  IF timeArg < 3600
                THEN /\ Colons(timeText) = {n - 2}
                     /\ Unpadded(SubSeq(timeText, 1, n - 3), m)
                     /\ TwoDigits(SubSeq(timeText, n - 1, n), sec)
                ELSE /\ Colons(timeText) = {n - 5, n - 2}
                     /\ Unpadded(SubSeq(timeText, 1, n - 6), h)
                     /\ TwoDigits(SubSeq(timeText, n - 4, n - 3), m)
                     /\ TwoDigits(SubSeq(timeText, n - 1, n), sec)

\* 3661 seconds were formatted as 1:01:01
C20_Witness ==
    /\ timeArg = 3661
    /\ timeText = <<"1", ":", "0", "1", ":", "0", "1">>

\* how many of the timers ts will show a notification
NotifyTimers(ts) == Len(SelectSeq(ts, LAMBDA t : t.kind = "notify"))

\* C21: scheduling a reminder has three outcomes the user can tell apart.
\* Without notification support the user is told so and neither a permission
\* request nor a timer is made; a permission request that resolves to anything
\* but "granted" tells the user that permission was denied and sets no timer
\* for a notification; a request that resolves to "granted" sets the timer of
\* its notification and reports success.  A timer for a notification is set by
\* no other step, and a notification is shown only by such a timer falling due.
C21_ReminderOutcomes ==
    [][ /\ Cardinality({NotSupportedAlert, DeniedAlert, ReminderSetAlert, ""}) = 4
        /\ \A payload \in Payloads, reminderMinutes \in {"", "5"} :
              handleScheduleReminder(payload, reminderMinutes, FALSE) =>
                 /\ lastAlert' = NotSupportedAlert
                 /\ timers' = timers
                 /\ permissionRequests' = permissionRequests
        /\ \A i \in 1..Len(permissionRequests) :
              /\ \A permission \in Permissions \ {"granted"} :
                    PermissionResolved(i, permission) =>
                       /\ lastAlert' = DeniedAlert
                       /\ timers' = timers
              /\ PermissionResolved(i, "granted") =>
                    /\ lastAlert' = ReminderSetAlert
                    /\ timers' = Append(timers, [kind |-> "notify",
                                                 title |-> permissionRequests[i].title])
        /\ NotifyTimers(timers') > NotifyTimers(timers) =>
              \E i \in 1..Len(permissionRequests) : PermissionResolved(i, "granted")
        /\ shown' # shown =>
              /\ Len(shown') = Len(shown) + 1
              /\ NotifyTimers(timers') = NotifyTimers(timers) - 1 ]_vars

\* permission was granted and the notification of the reminder was shown
C21_Witness ==
    /\ phase = "running" /\ lastAlert = ReminderSetAlert
    /\ shown = << "Revisit" >>
    /\ timers = <<>>

\* the second the player is at when it would report seconds: without a player
\* that has its methods the wrappers know of none and answer 0
PlayerSecond(seconds) == IF widget \in {"fresh", "ready"} THEN seconds ELSE 0

\* the video that was open has one more note, the first, taken at second t
AttachedNote(t) ==
    /\ currentVideo' # <<>>
    /\ currentVideo'[1].videoId = currentVideo[1].videoId
    /\ Len(currentVideo'[1].notes) = Len(currentVideo[1].notes) + 1
    /\ currentVideo'[1].notes[1].t = t

\* the video that was open has one more bookmark, the first, taken at second t
AttachedBookmark(t) ==
    /\ currentVideo' # <<>>
    /\ currentVideo'[1].videoId = currentVideo[1].videoId
    /\ Len(currentVideo'[1].bookmarks) = Len(currentVideo[1].bookmarks) + 1
    /\ currentVideo'[1].bookmarks[1].t = t

\* C22: while a video is open, every trigger of add-note (with a text) and of
\* add-bookmark, the buttons as well as the keys "n" and "b" pressed outside
\* an input, gives the video that is open at that time a new item taken at the
\* player's current second, whatever happened before.
C22_EveryTriggerAttaches ==
    [][ (phase = "running" /\ currentVideo # <<>>) =>
           \A seconds \in PlayerTimes :
              /\ handleAddNote("input", "note", "", seconds)
                    => AttachedNote(PlayerSecond(seconds))
              /\ handleAddNote("prompt", "", "note", seconds)
                    => AttachedNote(PlayerSecond(seconds))
              /\ handleKeyDown("n", "BODY", "note", "", seconds)
                    => AttachedNote(PlayerSecond(seconds))
              /\ \A bookmarkTitle \in {"", "B"} :
                    /\ handleAddBookmark(bookmarkTitle, seconds)
                          => AttachedBookmark(PlayerSecond(seconds))
                    /\ handleKeyDown("b", "BODY", "", bookmarkTitle, seconds)
                          => AttachedBookmark(PlayerSecond(seconds)) ]_vars

\* the second at which playback comes to rest
HeldSecond == 7

\* the interval of the watcher goes on ticking, whatever else happens and when
\* nothing else happens any more, while the player rests at HeldSecond
HeldTick == WatcherFires(HeldSecond) /\ UNCHANGED events

WatchNext == Next \/ HeldTick

\* the session with timer ticks that are fair
WatchSpec == Init /\ [][WatchNext]_vars /\ WF_vars(HeldTick)

\* a video is open, its player has its methods, and the second the player
\* rests at is SaveThreshold or more away from the video's stored lastTime
RestsAwayFromStored ==
    /\ phase = "running" /\ currentVideo # <<>>
    /\ widget = "ready"
    /\ Distance(HeldSecond, currentVideo[1].lastTime) >= SaveThreshold

\* C23: when a video is open, its player has become ready and playback rests
\* at a second that is SaveThreshold or more away from the stored lastTime,
\* then, the timer ticking fairly, this does not last: the watcher writes the
\* second into the video's lastTime (or the video is closed, the player is
\* replaced, or the stored lastTime comes within the threshold otherwise).
C23_WatcherEventuallyWrites == RestsAwayFromStored ~> ~RestsAwayFromStored

\* C24: in both variants, when the player of the open video signals ready, the
\* callback asks for the auto-resume seek if and only if the lastTime stored
\* for that video is greater than 0, and the target of the seek is that
\* lastTime: not the lastTime of the video that was open before, and not
\* nothing because no video was open before.
C24_ResumeSeeksOwnLastTime ==
    [][ (PlayerReady /\ currentVideo # <<>>) =>
           /\ onReady(resumeTime).seeks <=> currentVideo[1].lastTime > 0
           /\ onReady(resumeTime).seeks =>
                 onReady(resumeTime).target = currentVideo[1].lastTime ]_vars

\* C25: a step that leaves currentVideoId as it is (a store change and the
\* render it causes, a tick, a key) neither destroys nor replaces the player:
\* a player that has fired onReady is still the player after the step.
C25_PlayerOutlivesRender ==
    [][ (phase = "running" /\ widget = "ready" /\ currentVideoId' = currentVideoId)
           => widget' = "ready" ]_vars

\* C26: once the effects of a render have run, currentVideoId is null or the
\* videoId of a video of the current project, whatever switches, deletions,
\* additions and removals came before.
C26_OpenVideoIsInCurrentProject ==
    phase = "running" =>
       \/ currentVideoId = NullVideoId
       \/ HasVideo(currentProject, currentVideoId)

\* the operations on the open video
OpenVideoStep ==
    \/ AddNoteStep
    \/ AddBookmarkStep
    \/ \E noteId \in OpenNoteIds : handleEditNote(noteId, "edited") \/ handleDeleteNote(noteId)
    \/ \E bookmarkId \in OpenBookmarkIds :
          handleDeleteBookmark(bookmarkId) \/ handleBookmarkDrop(bookmarkId)
    \/ handleSetTitle("T")
    \/ \E seconds \in WatchedTimes : WatcherTick(seconds)

\* at most the record at videos[j] of projects[i] differs between ps and qs
OnlyVideoDiffers(ps, qs, i, j) ==
    /\ Len(qs) = Len(ps)
    /\ Len(qs[i].videos) = Len(ps[i].videos)
    /\ qs = [ps EXCEPT ![i].videos[j] = qs[i].videos[j]]

\* C27: in every reachable state an operation on the open video (add, edit,
\* delete a note; add, delete, move a bookmark; set the title; the watcher's
\* lastTime write) changes at most one Video record, the open video of the
\* current project: every other project and every other video stays as it is.
C27_OnlyOpenVideoChanges ==
    [][ OpenVideoStep =>
           \/ projects' = projects
           \/ \E i \in 1..Len(projects) : \E j \in 1..Len(projects[i].videos) :
                 /\ projects[i].id = currentProject.id
                 /\ projects[i].videos[j].videoId = currentVideoId
                 /\ OnlyVideoDiffers(projects, projects', i, j) ]_vars

\* the alerts with which the completion of a playlist add reports added videos
AddedAlerts == {"Added 1 video from the playlist", "Added videos from the playlist"}

\* C28: when the fetch of a playlist add started in project P completes, only
\* P's video list is modified, whatever project operations ran while the fetch
\* was pending; and whenever the completion reports that videos were added, P
\* is in the store afterwards and holds those videos.
C28_PlaylistAddStaysInItsProject ==
    [][ \A ok \in BOOLEAN, items \in PlaylistItems, useManual \in BOOLEAN :
           PlaylistFetched(ok, items, useManual) =>
              LET P == pending[1].project.id
                  videosToAdd == FilterExisting(
                      fetchPlaylistVideos(ok, items, pending[1].ref, nextId),
                      pending[1].project)
              IN  /\ Len(projects') = Len(projects)
                  /\ \A i \in 1..Len(projects) :
                        IF projects[i].id = P
                        THEN projects' [i] = [projects[i] EXCEPT !.videos = projects'[i].videos]
                        ELSE projects'[i] = projects[i]
                  /\ lastAlert' \in AddedAlerts =>
                        \E i \in 1..Len(projects') :
                           /\ projects'[i].id = P
                           /\ \A k \in 1..Len(videosToAdd) :
                                 \E l \in 1..Len(projects'[i].videos) :
                                    projects'[i].videos[l] = videosToAdd[k] ]_vars

\* the fetch of a pending playlist add settles, whatever else happens and when
\* nothing else happens any more
FetchSettles ==
    /\ \E ok \in BOOLEAN, items \in PlaylistItems, useManual \in BOOLEAN :
          FetchSettled(ok, items, useManual)
    /\ UNCHANGED events

AddNext == Next \/ FetchSettles

\* the session in which every fetch eventually resolves or rejects
AddSpec == Init /\ [][AddNext]_vars /\ WF_vars(FetchSettles)

\* C29: isLoading is true only while a playlist add awaits its fetch; an
\* invocation of handleAddVideo that does not await leaves isLoading false;
\* and an add that awaits eventually leaves isLoading false, whichever way
\* the continuation ends, provided the fetch settles.
C29_LoadingEnds ==
    /\ [](isLoading => pending # <<>>)
    /\ [][ (\E ref \in Refs : handleAddVideo(ref)) => (isLoading' <=> pending' # <<>>) ]_vars
    /\ isLoading ~> ~isLoading

\* a playlist add has ended on an early return and isLoading is false
C29_Witness ==
    /\ phase = "running" /\ ~isLoading /\ pending = <<>>
    /\ lastAlert = "All videos from this playlist are already in the project."

====
